---- MODULE Spec2Model ----
(***************************************************************************)
(* Model of the two concurrency primitives of hello_server:                *)
(*   - Cache<K, V>::get_or_insert_with   (src/hello_server/cache.rs)       *)
(*   - ThreadPool / Worker / ThreadPoolInner                               *)
(*                                        (src/hello_server/thread_pool.rs)*)
(* Every thread is modelled by a program counter; a step of the model is   *)
(* one lock acquisition, or the code a thread runs between two blocking    *)
(* points (a critical section that ends by releasing its locks).           *)
(***************************************************************************)
EXTENDS Integers, Sequences, FiniteSets, TLC

(* ---- bounds of the model ---- *)
NumThreads == 3
NumKeys == 2
NumValues == 2

Threads == 1..NumThreads
Keys == 1..NumKeys
Values == 1..NumValues

(* A std::sync::Mutex is the set of threads holding it: {} or one thread. *)
Unlocked == {}

VARIABLES
    inner,          \* Cache.inner: the HashMap<K, Arc<V>>, a function on its key set
    called_map,     \* Cache.called_map: the HashMap<K, bool>, a function on its key set
    inner_lock,     \* holder of the Mutex around inner
    called_lock,    \* holder of the Mutex around called_map
    cpc,            \* position of each thread in get_or_insert_with
    ckey,           \* the key argument of each thread's call
    cval,           \* the local `value` of the thread that ran f
    cret,           \* the value each call returned
    f_calls,        \* history: number of invocations of f per key
    f_results,      \* history: the values the invocations of f returned, per key
    cpath,          \* history: how each call came to its value (hit, win, spin)
    c_overlap       \* history: the keys claimed while the f of another call was running

cvars == <<inner, called_map, inner_lock, called_lock, cpc, ckey, cval, cret,
           f_calls, f_results, cpath, c_overlap>>

(* ---- bounds of the model of the thread pool ---- *)
NumWorkers == 2
MaxJobs == 3
NumJoiners == 1

Workers == 1..NumWorkers
JobIds == 1..MaxJobs
Joiners == 1..NumJoiners

VARIABLES
    wstate,         \* position of each worker thread in the loop of Worker::new
    wjob,           \* the job a worker has received and not yet finished (0: none)
    worker_thread,  \* Worker.thread: TRUE for Some(JoinHandle), FALSE for None
    queue,          \* the unbounded crossbeam channel: jobs sent and not yet received
    job_sender,     \* ThreadPool.job_sender: TRUE for Some(sender), FALSE for None
    job_count,      \* ThreadPoolInner.job_count
    count_lock,     \* holder of the Mutex around job_count
    jobs,           \* history: what became of each job handed to execute
    nexec,          \* history: number of calls of execute so far
    job_runs,       \* history: how many times each job's closure was called
    jpc,            \* position of each thread that calls ThreadPool::join
    jsnap,          \* history: nexec when the call of join under way was made
    dpc,            \* position of the thread that drops the ThreadPool
    didx,           \* the worker the drop loop is at
    drop_pending,   \* history: when drop began, MaxJobs jobs were accepted and none finished
    recv_after_panic \* history: a job was received after some worker had panicked

pvars == <<wstate, wjob, worker_thread, queue, job_sender, job_count, count_lock,
           jobs, nexec, job_runs, jpc, jsnap, dpc, didx, drop_pending,
           recv_after_panic>>

(* ---- a call of ThreadPool::new(size), step by step ---- *)

MaxSize == 3
Sizes == 0..MaxSize

VARIABLES
    new_pc,         \* position of the thread that calls ThreadPool::new
    size,           \* the argument of the call under way
    new_channel,    \* the channel made by unbounded(): {} before, {queue} after
    new_count,      \* job_count of the new ThreadPoolInner: {} before, {count} after
    workers,        \* the Vec of workers pushed so far, each by its thread's state
    new_outcomes    \* history: <<size, outcome>> of the calls that are over

nvars == <<new_pc, size, new_channel, new_count, workers, new_outcomes>>

vars == <<cvars, pvars, nvars>>

(* Mutation of CloneValue: the copy handed out is a default value, not the
   content of the stored one. *)
CloneValueDefault(v) == 1

(* V::clone and Arc<V> deref-clone: a copy equal in content to the original.
   Arc::try_unwrap(arc_value) on a clone of the map's Arc always fails (the map
   holds the other strong reference), so the fallback, a clone of the pointee, is taken. *)
CloneValue(v) == v

(* HashMap::insert: binds key to v, replacing an existing binding. *)
MapInsert(m, key, v) ==
    [k \in DOMAIN m \cup {key} |-> IF k = key THEN v ELSE m[k]]

CacheInit ==
    /\ inner = << >>
    /\ called_map = << >>
    /\ inner_lock = Unlocked
    /\ called_lock = Unlocked
    /\ cpc = [t \in Threads |-> "idle"]
    /\ ckey = [t \in Threads |-> 1]
    /\ cval = [t \in Threads |-> 1]
    /\ cret = [t \in Threads |-> 1]
    /\ f_calls = [k \in Keys |-> 0]
    /\ f_results = [k \in Keys |-> {}]
    /\ cpath = [t \in Threads |-> "none"]
    /\ c_overlap = {}

(* A thread enters get_or_insert_with(key, f). *)
CallGet(t, key) ==
    /\ cpc[t] = "idle"
    /\ cpc' = [cpc EXCEPT ![t] = "lock_inner"]
    /\ ckey' = [ckey EXCEPT ![t] = key]
    /\ UNCHANGED <<pvars, nvars>>
    /\ UNCHANGED <<inner, called_map, inner_lock, called_lock, cval, cret,
                   f_calls, f_results, cpath, c_overlap>>

(* let mut inner = self.inner.lock().unwrap(); *)
LockInner(t) ==
    /\ cpc[t] = "lock_inner"
    /\ inner_lock = Unlocked
    /\ inner_lock' = {t}
    /\ cpc' = [cpc EXCEPT ![t] = "match_entry"]
    /\ UNCHANGED <<pvars, nvars>>
    /\ UNCHANGED <<inner, called_map, called_lock, ckey, cval, cret,
                   f_calls, f_results, cpath, c_overlap>>

(* Mutation of CacheHit: an occupied entry is treated as a vacant one, so the
   call goes on to called_map and the retry loop. *)
CacheHitViaClaim(t) ==
    /\ cpc[t] = "match_entry"
    /\ ckey[t] \in DOMAIN inner
    /\ cpc' = [cpc EXCEPT ![t] = "lock_called"]
    /\ UNCHANGED <<pvars, nvars>>
    /\ UNCHANGED <<inner, called_map, inner_lock, called_lock, ckey, cval, cret,
                   f_calls, f_results, cpath, c_overlap>>

(* Entry::Occupied: copy the value out; the guard is dropped on return. *)
CacheHit(t) ==
    /\ cpc[t] = "match_entry"
    /\ ckey[t] \in DOMAIN inner
    /\ cret' = [cret EXCEPT ![t] = CloneValue(inner[ckey[t]])]
    /\ inner_lock' = Unlocked
    /\ cpc' = [cpc EXCEPT ![t] = "done"]
    /\ cpath' = [cpath EXCEPT ![t] = "hit"]
    /\ UNCHANGED <<pvars, nvars>>
    /\ UNCHANGED <<inner, called_map, called_lock, ckey, cval, f_calls, f_results, c_overlap>>

(* Entry::Vacant: go on to lock called_map, still holding inner. *)
CacheMiss(t) ==
    /\ cpc[t] = "match_entry"
    /\ ckey[t] \notin DOMAIN inner
    /\ cpc' = [cpc EXCEPT ![t] = "lock_called"]
    /\ UNCHANGED <<pvars, nvars>>
    /\ UNCHANGED <<inner, called_map, inner_lock, called_lock, ckey, cval, cret,
                   f_calls, f_results, cpath, c_overlap>>

(* let mut called = self.called_map.lock().unwrap(); *)
LockCalled(t) ==
    /\ cpc[t] = "lock_called"
    /\ called_lock = Unlocked
    /\ called_lock' = {t}
    /\ cpc' = [cpc EXCEPT ![t] = "check_called"]
    /\ UNCHANGED <<pvars, nvars>>
    /\ UNCHANGED <<inner, called_map, inner_lock, ckey, cval, cret,
                   f_calls, f_results, cpath, c_overlap>>

(* Mutation of AlreadyCalled: the claim is looked up in the result map, where
   a key claimed but not yet published is absent. *)
AlreadyCalledInResults(t) == ckey[t] \in DOMAIN inner

(* if called.contains_key(&key): the test that decides who computes. *)
AlreadyCalled(t) == ckey[t] \in DOMAIN called_map

(* Mutation of LoseClaim: drop(inner) is forgotten before the loop. *)
LoseClaimKeepsInner(t) ==
    /\ cpc[t] = "check_called"
    /\ AlreadyCalled(t)
    /\ called_lock' = Unlocked
    /\ cpc' = [cpc EXCEPT ![t] = "spin_lock"]
    /\ UNCHANGED <<pvars, nvars>>
    /\ UNCHANGED <<inner, called_map, inner_lock, ckey, cval, cret, f_calls,
                   f_results, cpath, c_overlap>>

(* f is already called for key: drop(called); drop(inner); enter the loop. *)
LoseClaim(t) ==
    /\ cpc[t] = "check_called"
    /\ AlreadyCalled(t)
    /\ called_lock' = Unlocked
    /\ inner_lock' = Unlocked
    /\ cpc' = [cpc EXCEPT ![t] = "spin_lock"]
    /\ UNCHANGED <<pvars, nvars>>
    /\ UNCHANGED <<inner, called_map, ckey, cval, cret, f_calls, f_results, cpath, c_overlap>>

(* Mutation of WinClaim: drop(inner) is forgotten, so f runs under the lock. *)
WinClaimKeepsInner(t) ==
    /\ cpc[t] = "check_called"
    /\ ~AlreadyCalled(t)
    /\ called_map' = MapInsert(called_map, ckey[t], TRUE)
    /\ called_lock' = Unlocked
    /\ f_calls' = [f_calls EXCEPT ![ckey[t]] = @ + 1]
    /\ cpc' = [cpc EXCEPT ![t] = "in_f"]
    /\ c_overlap' = IF \E u \in Threads : cpc[u] = "in_f"
                    THEN c_overlap \cup {ckey[t]} ELSE c_overlap
    /\ UNCHANGED <<pvars, nvars>>
    /\ UNCHANGED <<inner, inner_lock, ckey, cval, cret, f_results, cpath>>

(* called.insert(key, true); drop(called); drop(inner); then f(key) is
   invoked with no lock held. *)
WinClaim(t) ==
    /\ cpc[t] = "check_called"
    /\ ~AlreadyCalled(t)
    /\ called_map' = MapInsert(called_map, ckey[t], TRUE)
    /\ called_lock' = Unlocked
    /\ inner_lock' = Unlocked
    /\ f_calls' = [f_calls EXCEPT ![ckey[t]] = @ + 1]
    /\ cpc' = [cpc EXCEPT ![t] = "in_f"]
    /\ c_overlap' = IF \E u \in Threads : cpc[u] = "in_f"
                    THEN c_overlap \cup {ckey[t]} ELSE c_overlap
    /\ UNCHANGED <<pvars, nvars>>
    /\ UNCHANGED <<inner, ckey, cval, cret, f_results, cpath>>

(* f returns some value v: let value = f(key.clone()). *)
FReturns(t, v) ==
    /\ cpc[t] = "in_f"
    /\ cval' = [cval EXCEPT ![t] = v]
    /\ f_results' = [f_results EXCEPT ![ckey[t]] = @ \cup {v}]
    /\ cpc' = [cpc EXCEPT ![t] = "publish_lock"]
    /\ UNCHANGED <<pvars, nvars>>
    /\ UNCHANGED <<inner, called_map, inner_lock, called_lock, ckey, cret, f_calls, cpath, c_overlap>>

(* inner = self.inner.lock().unwrap();  (the winner re-acquires inner) *)
PublishLock(t) ==
    /\ cpc[t] = "publish_lock"
    /\ inner_lock = Unlocked
    /\ inner_lock' = {t}
    /\ cpc' = [cpc EXCEPT ![t] = "publish"]
    /\ UNCHANGED <<pvars, nvars>>
    /\ UNCHANGED <<inner, called_map, called_lock, ckey, cval, cret,
                   f_calls, f_results, cpath, c_overlap>>

(* Mutation of Publish: the claim is released once the result is stored, as
   a cache that clears its in-progress mark would. *)
PublishClearsClaim(t) ==
    /\ cpc[t] = "publish"
    /\ inner' = MapInsert(inner, ckey[t], CloneValue(cval[t]))
    /\ called_map' = [k \in DOMAIN called_map \ {ckey[t]} |-> called_map[k]]
    /\ cret' = [cret EXCEPT ![t] = cval[t]]
    /\ inner_lock' = Unlocked
    /\ cpc' = [cpc EXCEPT ![t] = "done"]
    /\ cpath' = [cpath EXCEPT ![t] = "win"]
    /\ UNCHANGED <<pvars, nvars>>
    /\ UNCHANGED <<called_lock, ckey, cval, f_calls, f_results, c_overlap>>

(* inner.insert(key, Arc::new(value.clone())); value *)
Publish(t) ==
    /\ cpc[t] = "publish"
    /\ inner' = MapInsert(inner, ckey[t], CloneValue(cval[t]))
    /\ cret' = [cret EXCEPT ![t] = cval[t]]
    /\ inner_lock' = Unlocked
    /\ cpc' = [cpc EXCEPT ![t] = "done"]
    /\ cpath' = [cpath EXCEPT ![t] = "win"]
    /\ UNCHANGED <<pvars, nvars>>
    /\ UNCHANGED <<called_map, called_lock, ckey, cval, f_calls, f_results, c_overlap>>

(* loop { let mut inner = self.inner.lock().unwrap(); *)
SpinLock(t) ==
    /\ cpc[t] = "spin_lock"
    /\ inner_lock = Unlocked
    /\ inner_lock' = {t}
    /\ cpc' = [cpc EXCEPT ![t] = "spin_check"]
    /\ UNCHANGED <<pvars, nvars>>
    /\ UNCHANGED <<inner, called_map, called_lock, ckey, cval, cret,
                   f_calls, f_results, cpath, c_overlap>>

(* if inner.contains_key(&key) { return copy } *)
SpinFound(t) ==
    /\ cpc[t] = "spin_check"
    /\ ckey[t] \in DOMAIN inner
    /\ cret' = [cret EXCEPT ![t] = CloneValue(inner[ckey[t]])]
    /\ inner_lock' = Unlocked
    /\ cpc' = [cpc EXCEPT ![t] = "done"]
    /\ cpath' = [cpath EXCEPT ![t] = "spin"]
    /\ UNCHANGED <<pvars, nvars>>
    /\ UNCHANGED <<inner, called_map, called_lock, ckey, cval, f_calls, f_results, c_overlap>>

(* not there yet: the guard is dropped at the end of the iteration. *)
SpinRetry(t) ==
    /\ cpc[t] = "spin_check"
    /\ ckey[t] \notin DOMAIN inner
    /\ inner_lock' = Unlocked
    /\ cpc' = [cpc EXCEPT ![t] = "spin_lock"]
    /\ UNCHANGED <<pvars, nvars>>
    /\ UNCHANGED <<inner, called_map, called_lock, ckey, cval, cret,
                   f_calls, f_results, cpath, c_overlap>>

(* Every step of a call that is under way (all but entering the call). *)
CacheStep(t) ==
    \/ LockInner(t)
    \/ CacheHit(t)
    \/ CacheMiss(t)
    \/ LockCalled(t)
    \/ LoseClaim(t)
    \/ WinClaim(t)
    \/ \E v \in Values : FReturns(t, v)
    \/ PublishLock(t)
    \/ Publish(t)
    \/ SpinLock(t)
    \/ SpinFound(t)
    \/ SpinRetry(t)

CacheNext ==
    \/ \E t \in Threads, key \in Keys : CallGet(t, key)
    \/ \E t \in Threads : CacheStep(t)

(* ====================================================================== *)
(* ThreadPool (src/hello_server/thread_pool.rs)                            *)
(* ====================================================================== *)

(* ThreadPool::new(size) with size = NumWorkers > 0: the workers are spawned
   and wait in recv, the channel is empty, job_count is 0. *)
PoolInit ==
    /\ wstate = [w \in Workers |-> "recv"]
    /\ wjob = [w \in Workers |-> 0]
    /\ worker_thread = [w \in Workers |-> TRUE]
    /\ queue = << >>
    /\ job_sender = TRUE
    /\ job_count = 0
    /\ count_lock = Unlocked
    /\ jobs = [i \in JobIds |-> "unsubmitted"]
    /\ nexec = 0
    /\ job_runs = [i \in JobIds |-> 0]
    /\ jpc = [j \in Joiners |-> "idle"]
    /\ jsnap = [j \in Joiners |-> 0]
    /\ dpc = "alive"
    /\ didx = 1
    /\ drop_pending = FALSE
    /\ recv_after_panic = FALSE

(* A second panic while the dropping thread unwinds aborts the process:
   after that no thread takes a step. *)
ProcessRunning == dpc # "aborted"

(* A worker thread has ended by a panic of its job. *)
Panicked(w) == wstate[w] = "panicked"
AnyPanicked == \E w \in Workers : Panicked(w)

(* A worker thread still holds its clone of the Receiver. *)
ReceiverAlive(w) == wstate[w] \notin {"exited", "panicked"}

(* ---- ThreadPool::execute ---- *)

(* Mutation of Execute: the job is sent whether or not job_sender is Some, as
   with a sender that drop does not take. *)
ExecuteSendsAlways ==
    /\ dpc \in {"alive", "joining", "unwinding"}
    /\ nexec < MaxJobs
    /\ nexec' = nexec + 1
    /\ IF \E w \in Workers : ReceiverAlive(w)
         THEN /\ queue' = Append(queue, nexec + 1)
              /\ jobs' = [jobs EXCEPT ![nexec + 1] = "queued"]
         ELSE /\ jobs' = [jobs EXCEPT ![nexec + 1] = "send_failed"]
              /\ UNCHANGED queue
    /\ UNCHANGED <<cvars, nvars, job_runs>>
    /\ UNCHANGED <<wstate, wjob, worker_thread, job_sender, job_count, count_lock,
                   jpc, jsnap, dpc, didx, drop_pending, recv_after_panic>>

(* if let Some(ref sender) = self.job_sender { sender.send(job).unwrap() }:
   the job is enqueued; send fails, and unwrap panics, when every Receiver is
   gone; with job_sender None the job is dropped without a trace. *)
Execute ==
    /\ dpc \in {"alive", "joining", "unwinding"}
    /\ nexec < MaxJobs
    /\ nexec' = nexec + 1
    /\ IF job_sender
         THEN IF \E w \in Workers : ReceiverAlive(w)
                THEN /\ queue' = Append(queue, nexec + 1)
                     /\ jobs' = [jobs EXCEPT ![nexec + 1] = "queued"]
                ELSE /\ jobs' = [jobs EXCEPT ![nexec + 1] = "send_failed"]
                     /\ UNCHANGED queue
         ELSE /\ jobs' = [jobs EXCEPT ![nexec + 1] = "discarded"]
              /\ UNCHANGED queue
    /\ UNCHANGED <<cvars, nvars, job_runs>>
    /\ UNCHANGED <<wstate, wjob, worker_thread, job_sender, job_count, count_lock,
                   jpc, jsnap, dpc, didx, drop_pending, recv_after_panic>>

(* ---- the worker loop of Worker::new ---- *)

(* Mutation of WorkerRecv: the job is read from the channel and left in it,
   as a broadcast would. *)
WorkerRecvPeek(w) ==
    /\ ProcessRunning
    /\ wstate[w] = "recv"
    /\ queue # << >>
    /\ wjob' = [wjob EXCEPT ![w] = Head(queue)]
    /\ jobs' = [jobs EXCEPT ![Head(queue)] = "taken"]
    /\ wstate' = [wstate EXCEPT ![w] = "start_job"]
    /\ recv_after_panic' = (recv_after_panic \/ AnyPanicked)
    /\ UNCHANGED <<cvars, nvars, job_runs>>
    /\ UNCHANGED <<worker_thread, queue, job_sender, job_count, count_lock, nexec,
                   jpc, jsnap, dpc, didx, drop_pending>>

(* while let Ok(job) = receiver.recv(): a job is taken from the channel. *)
WorkerRecv(w) ==
    /\ ProcessRunning
    /\ wstate[w] = "recv"
    /\ queue # << >>
    /\ wjob' = [wjob EXCEPT ![w] = Head(queue)]
    /\ jobs' = [jobs EXCEPT ![Head(queue)] = "taken"]
    /\ queue' = Tail(queue)
    /\ wstate' = [wstate EXCEPT ![w] = "start_job"]
    /\ recv_after_panic' = (recv_after_panic \/ AnyPanicked)
    /\ UNCHANGED <<cvars, nvars, job_runs>>
    /\ UNCHANGED <<worker_thread, job_sender, job_count, count_lock, nexec,
                   jpc, jsnap, dpc, didx, drop_pending>>

(* Mutation of WorkerExit: the loop ends as soon as the channel is found
   empty, as with try_recv. *)
WorkerExitOnEmpty(w) ==
    /\ ProcessRunning
    /\ wstate[w] = "recv"
    /\ queue = << >>
    /\ wstate' = [wstate EXCEPT ![w] = "exited"]
    /\ UNCHANGED <<cvars, nvars, job_runs>>
    /\ UNCHANGED <<wjob, worker_thread, queue, job_sender, job_count, count_lock,
                   jobs, nexec, jpc, jsnap, dpc, didx, drop_pending,
                   recv_after_panic>>

(* recv() returns Err once the channel is empty and its Sender is dropped:
   the loop ends and the thread exits. *)
WorkerExit(w) ==
    /\ ProcessRunning
    /\ wstate[w] = "recv"
    /\ queue = << >>
    /\ ~job_sender
    /\ wstate' = [wstate EXCEPT ![w] = "exited"]
    /\ UNCHANGED <<cvars, nvars, job_runs>>
    /\ UNCHANGED <<wjob, worker_thread, queue, job_sender, job_count, count_lock,
                   jobs, nexec, jpc, jsnap, dpc, didx, drop_pending,
                   recv_after_panic>>

(* Mutation of WorkerStartJob: the increment is left out. *)
WorkerStartJobNoCount(w) ==
    /\ ProcessRunning
    /\ wstate[w] = "start_job"
    /\ count_lock = Unlocked
    /\ jobs' = [jobs EXCEPT ![wjob[w]] = "running"]
    /\ wstate' = [wstate EXCEPT ![w] = "run"]
    /\ job_runs' = [job_runs EXCEPT ![wjob[w]] = @ + 1]
    /\ UNCHANGED <<cvars, nvars>>
    /\ UNCHANGED <<wjob, worker_thread, queue, job_sender, job_count, count_lock,
                   nexec, jpc, jsnap, dpc, didx, drop_pending, recv_after_panic>>

(* pool_inner.start_job(): lock job_count, *count += 1, unlock; then the job
   is called. *)
WorkerStartJob(w) ==
    /\ ProcessRunning
    /\ wstate[w] = "start_job"
    /\ count_lock = Unlocked
    /\ job_count' = job_count + 1
    /\ jobs' = [jobs EXCEPT ![wjob[w]] = "running"]
    /\ wstate' = [wstate EXCEPT ![w] = "run"]
    /\ job_runs' = [job_runs EXCEPT ![wjob[w]] = @ + 1]
    /\ UNCHANGED <<cvars, nvars>>
    /\ UNCHANGED <<wjob, worker_thread, queue, job_sender, count_lock, nexec,
                   jpc, jsnap, dpc, didx, drop_pending, recv_after_panic>>

(* (job.0)() returns. *)
WorkerJobReturns(w) ==
    /\ ProcessRunning
    /\ wstate[w] = "run"
    /\ jobs' = [jobs EXCEPT ![wjob[w]] = "done"]
    /\ wstate' = [wstate EXCEPT ![w] = "finish_job"]
    /\ UNCHANGED <<cvars, nvars, job_runs>>
    /\ UNCHANGED <<wjob, worker_thread, queue, job_sender, job_count, count_lock,
                   nexec, jpc, jsnap, dpc, didx, drop_pending, recv_after_panic>>

(* Mutation of WorkerJobPanics: the unwinding worker still reports the job as
   finished (as a guard calling finish_job from its destructor would). *)
WorkerJobPanicsCounted(w) ==
    /\ ProcessRunning
    /\ wstate[w] = "run"
    /\ count_lock = Unlocked
    /\ job_count' = job_count - 1
    /\ jobs' = [jobs EXCEPT ![wjob[w]] = "panicked"]
    /\ wstate' = [wstate EXCEPT ![w] = "panicked"]
    /\ UNCHANGED <<cvars, nvars, job_runs>>
    /\ UNCHANGED <<wjob, worker_thread, queue, job_sender, count_lock, nexec,
                   jpc, jsnap, dpc, didx, drop_pending, recv_after_panic>>

(* (job.0)() panics: the thread unwinds out of the closure, finish_job is
   not called, the thread's Receiver is dropped. *)
WorkerJobPanics(w) ==
    /\ ProcessRunning
    /\ wstate[w] = "run"
    /\ jobs' = [jobs EXCEPT ![wjob[w]] = "panicked"]
    /\ wstate' = [wstate EXCEPT ![w] = "panicked"]
    /\ UNCHANGED <<cvars, nvars, job_runs>>
    /\ UNCHANGED <<wjob, worker_thread, queue, job_sender, job_count, count_lock,
                   nexec, jpc, jsnap, dpc, didx, drop_pending, recv_after_panic>>

(* Mutation of WorkerFinishJob: notify_all is left out. *)
WorkerFinishJobNoNotify(w) ==
    /\ ProcessRunning
    /\ wstate[w] = "finish_job"
    /\ count_lock = Unlocked
    /\ job_count' = job_count - 1
    /\ wjob' = [wjob EXCEPT ![w] = 0]
    /\ wstate' = [wstate EXCEPT ![w] = "recv"]
    /\ UNCHANGED <<cvars, nvars, job_runs>>
    /\ UNCHANGED <<worker_thread, queue, job_sender, count_lock, jobs, nexec,
                   jpc, jsnap, dpc, didx, drop_pending, recv_after_panic>>

(* pool_inner.finish_job(): lock job_count, *count -= 1, notify_all, unlock;
   every thread waiting on empty_condvar is woken and, still inside wait,
   goes for the lock. *)
WorkerFinishJob(w) ==
    /\ ProcessRunning
    /\ wstate[w] = "finish_job"
    /\ count_lock = Unlocked
    /\ job_count' = job_count - 1
    /\ jpc' = [j \in Joiners |-> IF jpc[j] = "waiting" THEN "woken" ELSE jpc[j]]
    /\ wjob' = [wjob EXCEPT ![w] = 0]
    /\ wstate' = [wstate EXCEPT ![w] = "recv"]
    /\ UNCHANGED <<cvars, nvars, job_runs>>
    /\ UNCHANGED <<worker_thread, queue, job_sender, count_lock, jobs, nexec,
                   jsnap, dpc, didx, drop_pending, recv_after_panic>>


(* ---------------------------------------------------------------------- *)

(* ---- ThreadPool::join and ThreadPoolInner::wait_empty ---- *)

(* A thread calls pool.join(), which needs the pool not yet dropped; each
   thread of Joiners makes one call.  The history jsnap is left to the
   specification: JoinCallObserved records it, JoinCallPlain does not. *)
JoinCall(j) ==
    /\ dpc = "alive"
    /\ jpc[j] = "idle"
    /\ jpc' = [jpc EXCEPT ![j] = "lock"]
    /\ UNCHANGED <<cvars, nvars, job_runs>>
    /\ UNCHANGED <<wstate, wjob, worker_thread, queue, job_sender, job_count,
                   count_lock, jobs, nexec, dpc, didx, drop_pending,
                   recv_after_panic>>

JoinCallObserved(j) == JoinCall(j) /\ jsnap' = [jsnap EXCEPT ![j] = nexec]

JoinCallPlain(j) == JoinCall(j) /\ UNCHANGED jsnap

(* self.job_count.lock().unwrap() on entry, and the re-acquisition of the
   lock by which a woken Condvar::wait returns. *)
JoinLock(j) ==
    /\ ProcessRunning
    /\ jpc[j] \in {"lock", "woken"}
    /\ count_lock = Unlocked
    /\ count_lock' = {j}
    /\ jpc' = [jpc EXCEPT ![j] = "check"]
    /\ UNCHANGED <<cvars, nvars, job_runs>>
    /\ UNCHANGED <<wstate, wjob, worker_thread, queue, job_sender, job_count,
                   jobs, nexec, jsnap, dpc, didx, drop_pending, recv_after_panic>>

(* Mutation of MustWait: the loop tests whether some worker is running a
   job, not the counter. *)
MustWaitWhileRunning == \E w \in Workers : wstate[w] \in {"run", "finish_job"}

(* Mutation of MustWait: the loop condition is off by one. *)
MustWaitAboveOne == job_count > 1

(* while *count > 0 *)
MustWait == job_count > 0

(* count = self.empty_condvar.wait(count).unwrap(): the lock is released and
   the thread sleeps until it is notified. *)
JoinWait(j) ==
    /\ ProcessRunning
    /\ jpc[j] = "check"
    /\ MustWait
    /\ count_lock' = Unlocked
    /\ jpc' = [jpc EXCEPT ![j] = "waiting"]
    /\ UNCHANGED <<cvars, nvars, job_runs>>
    /\ UNCHANGED <<wstate, wjob, worker_thread, queue, job_sender, job_count,
                   jobs, nexec, jsnap, dpc, didx, drop_pending, recv_after_panic>>

(* the loop ends: the guard is dropped and join returns. *)
JoinReturn(j) ==
    /\ ProcessRunning
    /\ jpc[j] = "check"
    /\ ~MustWait
    /\ count_lock' = Unlocked
    /\ jpc' = [jpc EXCEPT ![j] = "returned"]
    /\ jsnap' = [jsnap EXCEPT ![j] = 0]
    /\ UNCHANGED <<cvars, nvars, job_runs>>
    /\ UNCHANGED <<wstate, wjob, worker_thread, queue, job_sender, job_count,
                   jobs, nexec, dpc, didx, drop_pending, recv_after_panic>>

(* Condvar::wait may wake without a notification. *)
SpuriousWakeup(j) ==
    /\ ProcessRunning
    /\ jpc[j] = "waiting"
    /\ jpc' = [jpc EXCEPT ![j] = "woken"]
    /\ UNCHANGED <<cvars, nvars, job_runs>>
    /\ UNCHANGED <<wstate, wjob, worker_thread, queue, job_sender, job_count,
                   count_lock, jobs, nexec, jsnap, dpc, didx, drop_pending,
                   recv_after_panic>>

(* ---- Drop for ThreadPool, and Drop for Worker ---- *)

(* Jobs that were enqueued and have neither returned nor panicked. *)
PendingJobs == {i \in JobIds : jobs[i] \in {"queued", "taken", "running"}}

(* Mutation of DropBegin: the Sender is kept, the channel stays open. *)
DropBeginKeepsSender ==
    /\ dpc = "alive"
    /\ \A j \in Joiners : jpc[j] \in {"idle", "returned"}
    /\ dpc' = "joining"
    /\ didx' = 1
    /\ drop_pending' = (Cardinality(PendingJobs) = MaxJobs)
    /\ UNCHANGED <<cvars, nvars, job_runs>>
    /\ UNCHANGED <<wstate, wjob, worker_thread, queue, job_sender, job_count,
                   count_lock, jobs, nexec, jpc, jsnap, recv_after_panic>>

(* drop(&mut self) needs the pool to itself, so no join is under way:
   self.job_sender = None closes the channel. *)
DropBegin ==
    /\ dpc = "alive"
    /\ \A j \in Joiners : jpc[j] \in {"idle", "returned"}
    /\ job_sender' = FALSE
    /\ dpc' = "joining"
    /\ didx' = 1
    /\ drop_pending' = (Cardinality(PendingJobs) = MaxJobs)
    /\ UNCHANGED <<cvars, nvars, job_runs>>
    /\ UNCHANGED <<wstate, wjob, worker_thread, queue, job_count, count_lock,
                   jobs, nexec, jpc, jsnap, recv_after_panic>>

(* Mutation of ThreadFinished: the handle is given up without waiting for
   the thread (the thread is detached). *)
ThreadFinishedOrDetached(w) == TRUE

(* JoinHandle::join returns once the thread has ended. *)
ThreadFinished(w) == wstate[w] \in {"exited", "panicked"}

(* Mutation of JoinResultIsErr: the result of join is ignored. *)
JoinResultIgnored(w) == FALSE

(* JoinHandle::join gives Err when the thread ended by a panic. *)
JoinResultIsErr(w) == Panicked(w)

(* for worker in &mut self._workers: take the handle and join it; unwrap()
   panics on Err, and the dropping thread starts to unwind. *)
DropJoinWorker ==
    /\ dpc = "joining"
    /\ didx \in Workers
    /\ worker_thread[didx]
    /\ ThreadFinished(didx)
    /\ worker_thread' = [worker_thread EXCEPT ![didx] = FALSE]
    /\ IF JoinResultIsErr(didx)
         THEN dpc' = "unwinding" /\ didx' = 1
         ELSE dpc' = dpc /\ didx' = didx + 1
    /\ UNCHANGED <<cvars, nvars, job_runs>>
    /\ UNCHANGED <<wstate, wjob, queue, job_sender, job_count, count_lock, jobs,
                   nexec, jpc, jsnap, drop_pending, recv_after_panic>>

(* the loop is over; the fields are dropped, and Worker::drop finds
   thread = None in every worker: drop returns. *)
DropReturn ==
    /\ dpc = "joining"
    /\ didx \notin Workers
    /\ \A w \in Workers : ~worker_thread[w]
    /\ dpc' = "returned"
    /\ UNCHANGED <<cvars, nvars, job_runs>>
    /\ UNCHANGED <<wstate, wjob, worker_thread, queue, job_sender, job_count,
                   count_lock, jobs, nexec, jpc, jsnap, didx, drop_pending,
                   recv_after_panic>>

(* While the panic unwinds out of ThreadPool::drop the fields are dropped:
   Worker::drop runs for each worker in turn, joins the handles that are
   left, and unwrap() on an Err there is a panic inside a panic: abort. *)
UnwindDropWorker ==
    /\ dpc = "unwinding"
    /\ didx \in Workers
    /\ IF worker_thread[didx]
         THEN /\ ThreadFinished(didx)
              /\ worker_thread' = [worker_thread EXCEPT ![didx] = FALSE]
              /\ IF JoinResultIsErr(didx)
                   THEN dpc' = "aborted" /\ didx' = didx
                   ELSE dpc' = dpc /\ didx' = didx + 1
         ELSE /\ didx' = didx + 1
              /\ UNCHANGED <<worker_thread, dpc>>
    /\ UNCHANGED <<cvars, nvars, job_runs>>
    /\ UNCHANGED <<wstate, wjob, queue, job_sender, job_count, count_lock, jobs,
                   nexec, jpc, jsnap, drop_pending, recv_after_panic>>

(* every Worker is dropped: the panic leaves drop. *)
UnwindDone ==
    /\ dpc = "unwinding"
    /\ didx \notin Workers
    /\ dpc' = "panicked"
    /\ UNCHANGED <<cvars, nvars, job_runs>>
    /\ UNCHANGED <<wstate, wjob, worker_thread, queue, job_sender, job_count,
                   count_lock, jobs, nexec, jpc, jsnap, didx, drop_pending,
                   recv_after_panic>>

WorkerStep(w) ==
    \/ WorkerRecv(w)
    \/ WorkerExit(w)
    \/ WorkerStartJob(w)
    \/ WorkerJobReturns(w)
    \/ WorkerJobPanics(w)
    \/ WorkerFinishJob(w)

JoinStep(j) ==
    \/ JoinLock(j)
    \/ JoinWait(j)
    \/ JoinReturn(j)

DropStep ==
    \/ DropJoinWorker
    \/ DropReturn
    \/ UnwindDropWorker
    \/ UnwindDone

PoolNext ==
    \/ Execute
    \/ \E w \in Workers : WorkerStep(w)
    \/ \E j \in Joiners : JoinCallObserved(j)
    \/ \E j \in Joiners : JoinStep(j)
    \/ \E j \in Joiners : SpuriousWakeup(j)
    \/ DropBegin
    \/ DropStep

(* ---- ThreadPool::new ---- *)

NewInit ==
    /\ new_pc = "idle"
    /\ size = 0
    /\ new_channel = {}
    /\ new_count = {}
    /\ workers = << >>
    /\ new_outcomes = {}

(* A thread calls ThreadPool::new(n); nothing of an earlier call is shared
   with this one. *)
NewCall(n) ==
    /\ new_pc \in {"idle", "panicked", "built"}
    /\ new_pc' = "assert"
    /\ size' = n
    /\ new_channel' = {}
    /\ new_count' = {}
    /\ workers' = << >>
    /\ UNCHANGED new_outcomes
    /\ UNCHANGED <<cvars, pvars>>

(* Mutation of SizeAccepted: the assertion is left out. *)
SizeAcceptedAlways(n) == TRUE

(* The condition of assert!(size > 0). *)
SizeAccepted(n) == n > 0

(* assert!(size > 0) fails: the call panics. *)
NewAssertFails ==
    /\ new_pc = "assert"
    /\ ~SizeAccepted(size)
    /\ new_pc' = "panicked"
    /\ new_outcomes' = new_outcomes \cup {<<size, "panicked">>}
    /\ UNCHANGED <<size, new_channel, new_count, workers>>
    /\ UNCHANGED <<cvars, pvars>>

(* The assertion holds; let (sender, receiver) = unbounded() makes the
   channel, empty. *)
NewChannel ==
    /\ new_pc = "assert"
    /\ SizeAccepted(size)
    /\ new_channel' = {<< >>}
    /\ new_pc' = "inner"
    /\ UNCHANGED <<size, new_count, workers, new_outcomes>>
    /\ UNCHANGED <<cvars, pvars>>

(* Vec::with_capacity(size); Arc::new(ThreadPoolInner::new()): job_count is
   Mutex::new(0). *)
NewInner ==
    /\ new_pc = "inner"
    /\ new_count' = {0}
    /\ new_pc' = "loop"
    /\ UNCHANGED <<size, new_channel, workers, new_outcomes>>
    /\ UNCHANGED <<cvars, pvars>>

(* for id in 0..size: Worker::new spawns a thread and the worker is pushed;
   Len(workers) is the id of the next one. *)
NewSpawn ==
    /\ new_pc = "loop"
    /\ Len(workers) < size
    /\ workers' = Append(workers, "spawned")
    /\ UNCHANGED <<new_pc, size, new_channel, new_count, new_outcomes>>
    /\ UNCHANGED <<cvars, pvars>>

(* A spawned thread starts and blocks in receiver.recv(): the channel is
   empty and its Sender alive. *)
NewWorkerStart(w) ==
    /\ w \in 1..Len(workers)
    /\ workers[w] = "spawned"
    /\ workers' = [workers EXCEPT ![w] = "recv"]
    /\ UNCHANGED <<new_pc, size, new_channel, new_count, new_outcomes>>
    /\ UNCHANGED <<cvars, pvars>>

(* The loop is over: Self { _workers, job_sender: Some(sender), pool_inner }
   is returned. *)
NewReturn ==
    /\ new_pc = "loop"
    /\ Len(workers) = size
    /\ new_pc' = "built"
    /\ new_outcomes' = new_outcomes \cup {<<size, "built">>}
    /\ UNCHANGED <<size, new_channel, new_count, workers>>
    /\ UNCHANGED <<cvars, pvars>>

NewNext ==
    \/ \E n \in Sizes : NewCall(n)
    \/ NewAssertFails
    \/ NewChannel
    \/ NewInner
    \/ NewSpawn
    \/ \E w \in 1..MaxSize : NewWorkerStart(w)
    \/ NewReturn

(* ---- the specifications: each component on its own ---- *)

(* The state once the Cache and the ThreadPool are constructed. *)
Init == CacheInit /\ PoolInit /\ NewInit

SpecCache == Init /\ [][CacheNext]_vars

(* Scheduling of OS threads: a thread whose next step stays possible is
   eventually run.  std::sync::Mutex promises no fairness among the threads
   contending for it, so nothing stronger holds of a lock acquisition. *)
FairSpecCache == SpecCache /\ \A t \in Threads : WF_cvars(CacheStep(t))

(* The same with a fair mutex: a thread that finds the lock free again and
   again eventually gets it. *)
StrongFairSpecCache == SpecCache /\ \A t \in Threads : SF_cvars(CacheStep(t))

SpecPool == Init /\ [][PoolNext]_vars

SpecNew == Init /\ [][NewNext]_vars

(* The pool under fair scheduling.  Left out are the history jsnap, which no
   claim made of these behaviours reads, and spurious wakeups: a wait then
   ends only by a notification, the case in which a lost wake-up would
   show. *)
PoolNextFair ==
    \/ Execute
    \/ \E w \in Workers : WorkerStep(w)
    \/ \E j \in Joiners : JoinCallPlain(j)
    \/ \E j \in Joiners : JoinStep(j)
    \/ DropBegin
    \/ DropStep

(* Scheduling of the pool's threads: a worker, a thread inside join and the
   dropping thread each eventually take a step that stays possible.  No
   fairness is asked of the callers (Execute, JoinCall, DropBegin). *)
FairSpecPool ==
    /\ Init
    /\ [][PoolNextFair]_vars
    /\ \A w \in Workers : WF_vars(WorkerStep(w))
    /\ \A j \in Joiners : WF_vars(JoinStep(j))
    /\ WF_vars(DropStep)

(* Claims about Cache::get_or_insert_with                                  *)
(* ---------------------------------------------------------------------- *)

(* The calls made so far for key k, and whether all of them have returned. *)
CallsFor(k) == {t \in Threads : cpc[t] # "idle" /\ ckey[t] = k}
AllReturned(k) == \A t \in CallsFor(k) : cpc[t] = "done"

(* C1: for every key, f is invoked at most once in any reachable state, and
   exactly once by the time every call made for that key has returned. *)
C1_FOncePerKey ==
    \A k \in Keys :
        /\ f_calls[k] <= 1
        /\ (CallsFor(k) # {} /\ AllReturned(k)) => f_calls[k] = 1

(* C1 witness: two calls for one key have both returned, one of them after
   waiting in the retry loop for the other's f. *)
C1_Witness ==
    \E k \in Keys : \E t1, t2 \in CallsFor(k) :
        /\ t1 # t2
        /\ AllReturned(k)
        /\ cpath[t1] = "win"
        /\ cpath[t2] = "spin"

(* C2: every call that has returned -- winner, loser or later cache hit --
   returned the result of the single invocation of f for its key; in
   particular f had returned before any caller did. *)
C2_ReturnsTheSingleResult ==
    \A t \in Threads :
        cpc[t] = "done" => f_results[ckey[t]] = {cret[t]}

(* C2 witness: a winner, a loser and a later cache hit have all returned for
   one key, and f could have returned another value. *)
C2_Witness ==
    \E t1, t2, t3 \in Threads :
        /\ cpc[t1] = "done" /\ cpc[t2] = "done" /\ cpc[t3] = "done"
        /\ ckey[t1] = ckey[t2] /\ ckey[t2] = ckey[t3]
        /\ cpath[t1] = "win" /\ cpath[t2] = "spin" /\ cpath[t3] = "hit"
        /\ cret[t1] # 1

(* C3: a thread that is inside f holds neither the inner lock nor the
   called_map lock, so calls for other keys are not held up by it. *)
C3_NoLockHeldInF ==
    \A t \in Threads :
        cpc[t] = "in_f" => (t \notin inner_lock /\ t \notin called_lock)

(* C3 witness: while the f of key A was running (only these two calls were
   ever made), a call for key B claimed B, ran its own f and returned, and
   the f of A is still running. *)
C3_Witness ==
    \E a, b \in Threads :
        /\ cpc[a] = "in_f"
        /\ cpc[b] = "done" /\ cpath[b] = "win" /\ ckey[b] \in c_overlap
        /\ ckey[a] # ckey[b]
        /\ \A u \in Threads \ {a, b} : cpc[u] = "idle"

(* C4: a call that lost the claim and entered the retry loop eventually
   returns (f always returns in FairSpecCache). *)
C4_LoserEventuallyReturns ==
    \A t \in Threads : (cpc[t] = "spin_lock") ~> (cpc[t] = "done")

(* The calls that inserted key k into inner and have returned. *)
Publishers(k) ==
    {t \in Threads : cpc[t] = "done" /\ cpath[t] = "win" /\ ckey[t] = k}

(* C14: every key of inner is a key of called_map; no step removes a key
   from either map or changes a value stored in inner; the step that inserts
   into called_map finds the key absent there, the step that inserts into
   inner finds the key absent there and present in called_map; and each key
   is claimed, and published, by at most one call. *)
C14_MapsGrowOncePerKey ==
    /\ [](DOMAIN inner \subseteq DOMAIN called_map)
    /\ [](\A k \in Keys : f_calls[k] <= 1 /\ Cardinality(Publishers(k)) <= 1)
    /\ [][/\ DOMAIN called_map \subseteq DOMAIN called_map'
          /\ DOMAIN inner \subseteq DOMAIN inner'
          /\ \A k \in DOMAIN inner : inner'[k] = inner[k]]_vars
    /\ [][\A t \in Threads :
            /\ (cpc[t] = "check_called" /\ cpc'[t] = "in_f") =>
                  /\ ckey[t] \notin DOMAIN called_map
                  /\ ckey[t] \in DOMAIN called_map'
            /\ (cpc[t] = "publish" /\ cpc'[t] = "done") =>
                  /\ ckey[t] \notin DOMAIN inner
                  /\ ckey[t] \in DOMAIN called_map
                  /\ ckey[t] \in DOMAIN inner']_vars

(* C14 witness: one key is published while a call that lost the claim for it
   is still in the retry loop, and another key is claimed and not yet
   published. *)
C14_Witness ==
    \E k1, k2 \in Keys :
        /\ k1 \in DOMAIN inner
        /\ k2 \in DOMAIN called_map \ DOMAIN inner
        /\ \E t \in Threads : ckey[t] = k1 /\ cpc[t] \in {"spin_lock", "spin_check"}

(* C18: a call that holds inner and finds its key there returns, by its
   next step, a copy of the stored value, and that step invokes no f and
   leaves called_map and its lock alone; no call is at called_map with its
   key already in inner; a thread that runs f does not hold inner, and a
   thread that holds inner can always take its next step, so the lock is
   given up without the return of any f. *)
C18_HitReturnsWithoutF ==
    /\ [][\A t \in Threads :
            (cpc[t] = "match_entry" /\ ckey[t] \in DOMAIN inner
                                   /\ cpc'[t] # cpc[t]) =>
                /\ cpc'[t] = "done"
                /\ cret'[t] = inner[ckey[t]]
                /\ f_calls' = f_calls
                /\ called_map' = called_map
                /\ called_lock' = called_lock
                /\ inner' = inner]_vars
    /\ [](\A t \in Threads :
            /\ cpc[t] \in {"lock_called", "check_called"} =>
                  ckey[t] \notin DOMAIN inner
            /\ cpc[t] = "in_f" => t \notin inner_lock
            /\ t \in inner_lock => ENABLED CacheStep(t))

(* C18 witness: a call holds inner and finds its key published while the f
   of another key is running. *)
C18_Witness ==
    \E t, u \in Threads :
        /\ cpc[t] = "match_entry"
        /\ t \in inner_lock
        /\ ckey[t] \in DOMAIN inner
        /\ cpc[u] = "in_f"
        /\ ckey[u] # ckey[t]

(* The calls that are under way. *)
Unfinished == {t \in Threads : cpc[t] \notin {"idle", "done"}}

(* C19: each lock has at most one holder; a thread that holds called_map
   holds inner, and a thread that goes for called_map holds inner and not
   called_map; a thread that goes for inner -- on entry, in the retry loop
   or after f -- holds neither lock, nor does a thread that runs f; and
   whenever some call is under way, some thread can take a step. *)
C19_CacheDeadlockFree ==
    /\ Cardinality(inner_lock) <= 1
    /\ Cardinality(called_lock) <= 1
    /\ \A t \in Threads :
          /\ t \in called_lock => t \in inner_lock
          /\ cpc[t] = "lock_called" =>
                (t \in inner_lock /\ t \notin called_lock)
          /\ cpc[t] \in {"lock_inner", "spin_lock", "publish_lock", "in_f"} =>
                (t \notin inner_lock /\ t \notin called_lock)
    /\ Unfinished # {} => \E t \in Unfinished : ENABLED CacheStep(t)

(* C19 witness: one thread holds both locks while another runs f and a third
   is between two iterations of the retry loop. *)
C19_Witness ==
    \E t, u, v \in Threads :
        /\ cpc[t] = "check_called"
        /\ t \in inner_lock /\ t \in called_lock
        /\ cpc[u] = "in_f"
        /\ cpc[v] = "spin_lock"

(* ---------------------------------------------------------------------- *)
(* Claims about ThreadPool                                                 *)
(* ---------------------------------------------------------------------- *)

(* The jobs that execute put on the channel. *)
Accepted(i) == jobs[i] \notin {"unsubmitted", "discarded", "send_failed"}

(* The workers between the increment of start_job and the decrement of
   finish_job. *)
Executing == {w \in Workers : wstate[w] \in {"run", "finish_job"}}

(* C5: at every return of join(), every job submitted with execute() before
   that join() was called has finished running. *)
C5_JoinWaitsForSubmittedJobs ==
    [][\A j \in Joiners :
          (jpc[j] # "returned" /\ jpc'[j] = "returned") =>
              \A i \in 1..jsnap[j] :
                  Accepted(i) => jobs[i] \in {"done", "panicked"}]_vars

(* C6: join returns only at a moment when it holds the lock of the counter,
   the counter is zero and no worker is between start_job and finish_job;
   while the counter is greater than zero the caller stays blocked. *)
C6_JoinReturnsOnlyAtZero ==
    [][\A j \in Joiners :
          (jpc[j] # "returned" /\ jpc'[j] = "returned") =>
              /\ count_lock = {j}
              /\ job_count = 0
              /\ Executing = {}]_vars

(* C6 witness: a call of join made after MaxJobs jobs were submitted holds
   the lock and finds the counter at zero, all jobs done: it is about to
   return. *)
C6_Witness ==
    \E j \in Joiners :
        /\ jpc[j] = "check"
        /\ count_lock = {j}
        /\ jsnap[j] = MaxJobs
        /\ \A i \in JobIds : jobs[i] = "done"
        /\ job_count = 0

(* C7: when drop of the pool returns, every job accepted before has run to
   completion, the queue is empty and every worker thread has exited. *)
C7_DropDrainsQueue ==
    dpc = "returned" =>
        /\ \A i \in JobIds : Accepted(i) => jobs[i] = "done"
        /\ queue = << >>
        /\ \A w \in Workers : wstate[w] = "exited"

(* C7 witness: MaxJobs jobs were submitted and the pool was dropped before
   any of them had finished, join was never called, and drop returned. *)
C7_Witness ==
    /\ dpc = "returned"
    /\ \A i \in JobIds : jobs[i] = "done"
    /\ \A j \in Joiners : jpc[j] = "idle"
    /\ drop_pending

(* C8: once drop of the pool is over, it has ended in a panic (a plain panic,
   or the abort that a second panicked worker causes while the first panic
   unwinds) exactly if some worker thread panicked, and has returned
   normally exactly if none did. *)
C8_DropReraisesWorkerPanic ==
    dpc \in {"returned", "panicked", "aborted"} =>
        /\ AnyPanicked <=> dpc \in {"panicked", "aborted"}
        /\ ~AnyPanicked <=> dpc = "returned"

(* C8 witness: the last worker of the pool panicked, the others exited, and
   drop ended in a panic. *)
C8_Witness ==
    /\ dpc = "panicked"
    /\ Panicked(NumWorkers)
    /\ \A w \in Workers \ {NumWorkers} : wstate[w] = "exited"

(* C9: a panicking job ends only the worker that ran it -- the step changes
   no other worker, nor the queue, nor the sender, and a worker waiting in
   recv can still take a queued job -- and the increment made for the
   panicked job is never undone: the counter stays at least the number of
   panicked workers. *)
C9_PanicEndsOnlyItsWorker ==
    /\ [](job_count >= Cardinality({w \in Workers : Panicked(w)}))
    /\ [](\A w \in Workers :
            (wstate[w] = "recv" /\ queue # << >> /\ ProcessRunning)
                => ENABLED WorkerRecv(w))
    /\ [][\A w \in Workers :
            (~Panicked(w) /\ Panicked(w)') =>
                /\ \A u \in Workers \ {w} : wstate'[u] = wstate[u]
                /\ queue' = queue
                /\ job_sender' = job_sender
                /\ job_count' = job_count]_vars

(* C9 witness: all jobs were submitted and taken, one worker panicked, the
   last job was received after that and has run to completion, and the
   counter still holds the panicked job. *)
C9_Witness ==
    /\ recv_after_panic
    /\ nexec = MaxJobs
    /\ queue = << >>
    /\ jobs[MaxJobs] = "done"
    /\ Cardinality({w \in Workers : Panicked(w)}) = 1
    /\ Executing = {}
    /\ job_count = 1

(* C10, as claimed: the counter is >= 0, equals the number of jobs being
   executed, and never exceeds the pool size. *)
C10_CounterIsExecuting ==
    /\ job_count >= 0
    /\ job_count = Cardinality(Executing)
    /\ job_count <= NumWorkers

(* C10, amended: the counter is >= 0, equals the number of jobs being
   executed plus the number of jobs that panicked, and never exceeds the
   pool size; jobs queued or received but not started are not counted. *)
C10_CounterIsExecutingPlusPanicked ==
    /\ job_count >= 0
    /\ job_count = Cardinality(Executing)
                     + Cardinality({w \in Workers : Panicked(w)})
    /\ job_count <= NumWorkers

(* C10 witness: one job is being executed, one has panicked, one more is
   queued: the counter is 2. *)
C10_Witness ==
    /\ job_count = 2
    /\ Cardinality(Executing) = 1
    /\ AnyPanicked
    /\ queue # << >>

(* The workers that hold job i: received and not yet reported finished. *)
Holders(i) == {w \in Workers : wjob[w] = i}

(* The number of places of the channel that hold job i. *)
QueuedCopies(i) == Cardinality({n \in 1..Len(queue) : queue[n] = i})

(* C11: a job that execute put on the channel is taken by one worker and run
   once -- it is never in the channel twice, never in the channel and with
   a worker, never with two workers, never started twice, and a job not
   accepted is never started; a finished job was started once; when drop
   returns every accepted job was started once; and, under fair scheduling,
   a queued job is eventually started unless some job panics. *)
C11_EachJobRunOnce ==
    /\ [](\A i \in JobIds :
            /\ QueuedCopies(i) + Cardinality(Holders(i)) <= 1
            /\ job_runs[i] <= 1
            /\ ~Accepted(i) => job_runs[i] = 0
            /\ jobs[i] \in {"running", "done", "panicked"} <=> job_runs[i] = 1
            /\ (dpc = "returned" /\ Accepted(i)) => job_runs[i] = 1)
    /\ \A i \in JobIds :
          (jobs[i] = "queued") ~> (job_runs[i] = 1 \/ AnyPanicked)

(* C11 witness: MaxJobs jobs were accepted, every one of them was started
   once and has finished, and drop has returned. *)
C11_Witness ==
    /\ dpc = "returned"
    /\ \A i \in JobIds : jobs[i] = "done" /\ job_runs[i] = 1
    /\ queue = << >>

(* C12: a call of execute made when job_sender is None changes nothing but
   the record of the call -- the queue, the counter, the workers and the
   dropping thread are as before, the job is marked discarded and not as a
   failed send -- and a discarded job is never in the channel, never with a
   worker and never started. *)
C12_ExecuteAfterShutdownDiscarded ==
    /\ [][(nexec' = nexec + 1 /\ ~job_sender) =>
            /\ jobs' = [jobs EXCEPT ![nexec + 1] = "discarded"]
            /\ queue' = queue
            /\ job_count' = job_count
            /\ wstate' = wstate /\ wjob' = wjob
            /\ dpc' = dpc]_vars
    /\ [](\A i \in JobIds :
            jobs[i] = "discarded" =>
                /\ QueuedCopies(i) = 0
                /\ Holders(i) = {}
                /\ job_runs[i] = 0)

(* C12 witness: the pool is being dropped while a job accepted earlier is
   still in the channel and a worker is running another; a job was
   submitted then and discarded. *)
C12_Witness ==
    /\ ~job_sender
    /\ \E i \in JobIds : jobs[i] = "discarded"
    /\ queue # << >>
    /\ \E w \in Workers : wstate[w] = "run"

(* The state of a worker as the state machine names it: Idle in recv,
   Running from the receipt of a job to the end of finish_job, Terminated
   once its thread has ended. *)
Phase(w) ==
    IF wstate[w] = "recv" THEN "Idle"
    ELSE IF wstate[w] \in {"start_job", "run", "finish_job"} THEN "Running"
    ELSE "Terminated"

(* C15: a worker changes state only from Idle to Running, by taking the head
   of the channel; from Running to Idle, after its job returned; from Idle
   to Terminated, when the channel is empty and the Sender dropped; or, by a
   panic of the job it runs, from Running to Terminated.  A worker that has
   exited its loop implies a dropped Sender and an empty channel. *)
C15_WorkerStateMachine ==
    /\ [][\A w \in Workers :
            Phase(w)' # Phase(w) =>
                \/ /\ Phase(w) = "Idle" /\ Phase(w)' = "Running"
                   /\ queue # << >>
                   /\ wjob'[w] = Head(queue)
                   /\ queue' = Tail(queue)
                \/ /\ Phase(w) = "Running" /\ Phase(w)' = "Idle"
                   /\ jobs[wjob[w]] = "done"
                \/ /\ Phase(w) = "Idle" /\ wstate'[w] = "exited"
                   /\ queue = << >>
                   /\ ~job_sender
                \/ /\ wstate[w] = "run" /\ wstate'[w] = "panicked"
                   /\ jobs'[wjob[w]] = "panicked"]_vars
    /\ [](\A w \in Workers :
            wstate[w] = "exited" => (~job_sender /\ queue = << >>))

(* C15 witness: a job has finished and no job panicked; one worker has exited
   its loop while another is still running a job. *)
C15_Witness ==
    \E w1, w2 \in Workers :
        /\ wstate[w1] = "exited"
        /\ wstate[w2] = "run"
        /\ \E i \in JobIds : jobs[i] = "done"
        /\ ~AnyPanicked

(* C16: under fair scheduling, once drop of the pool has begun it
   eventually returns, with the channel drained, every worker out of its
   loop and every thread joined, unless some job panics. *)
C16_DropTerminates ==
    (dpc = "joining") ~>
        \/ /\ dpc = "returned"
           /\ queue = << >>
           /\ \A w \in Workers : wstate[w] = "exited" /\ ~worker_thread[w]
        \/ AnyPanicked

(* C16 witness: drop began with MaxJobs jobs accepted and none finished, and
   has returned with every worker thread joined. *)
C16_Witness ==
    /\ drop_pending
    /\ dpc = "returned"
    /\ \A w \in Workers : wstate[w] = "exited" /\ ~worker_thread[w]

(* The threads that are inside join. *)
Joining == {j \in Joiners : jpc[j] \in {"lock", "check", "waiting", "woken"}}

(* C17: a thread sleeps in wait only while the counter is above zero; every
   decrement of the counter, made with the lock free of any joiner, leaves
   no thread asleep; and, under fair scheduling, a thread inside join
   eventually returns from it unless some job panics. *)
C17_NoLostWakeup ==
    /\ [](\A j \in Joiners : jpc[j] = "waiting" => job_count > 0)
    /\ [][job_count' < job_count =>
            /\ count_lock = Unlocked
            /\ \A j \in Joiners : jpc'[j] # "waiting"]_vars
    /\ \A j \in Joiners :
          (j \in Joining) ~> (jpc[j] = "returned" \/ AnyPanicked)

(* C17 witness: a thread that slept in wait has been woken by the finish_job
   of the last of MaxJobs jobs and is about to take the lock; the counter
   is zero and no job panicked. *)
C17_Witness ==
    \E j \in Joiners :
        /\ jpc[j] = "woken"
        /\ job_count = 0
        /\ \A i \in JobIds : jobs[i] = "done"

(* C20: once a job has panicked, that stays so, the counter is at least 1,
   no step -- woken by a notification or spuriously -- takes a thread out
   of join, and drop of the pool does not return normally. *)
C20_PanicBlocksJoinForever ==
    /\ [](AnyPanicked => (job_count >= 1 /\ dpc # "returned"))
    /\ [][AnyPanicked =>
            /\ AnyPanicked'
            /\ \A j \in Joiners :
                  jpc[j] # "returned" => jpc'[j] # "returned"]_vars

(* C20 witness: a job panicked, every other job has finished, the channel is
   empty and no worker is running; a thread inside join holds the lock,
   finds the counter at 1 and has to wait. *)
C20_Witness ==
    \E j \in Joiners :
        /\ jpc[j] = "check"
        /\ count_lock = {j}
        /\ AnyPanicked
        /\ \A i \in JobIds : jobs[i] \in {"done", "panicked"}
        /\ Executing = {}
        /\ job_count = 1

(* ---------------------------------------------------------------------- *)
(* Claims about ThreadPool::new                                            *)
(* ---------------------------------------------------------------------- *)

(* A worker that has no job: its thread has been spawned, or waits in recv. *)
Idle(w) == workers[w] \in {"spawned", "recv"}

(* C13: a call new(0) never gets past the assertion -- no channel, counter
   or worker exists at any moment of it, and it ends in a panic, never in a
   pool; a call new(size) with size >= 1 never panics, and the pool it
   returns has size workers, all idle, an empty channel and job_count 0. *)
C13_NewRejectsZero ==
    /\ size = 0 =>
          /\ new_pc \in {"idle", "assert", "panicked"}
          /\ new_channel = {} /\ new_count = {} /\ workers = << >>
    /\ new_pc = "panicked" => size = 0
    /\ new_pc = "built" =>
          /\ size >= 1
          /\ Len(workers) = size
          /\ \A w \in 1..size : Idle(w)
          /\ new_channel = {<< >>}
          /\ new_count = {0}
    /\ \A o \in new_outcomes : o[2] = "panicked" <=> o[1] = 0

(* C13 witness: new(0) was called and panicked, and a later call
   new(MaxSize) has returned a pool. *)
C13_Witness ==
    /\ <<0, "panicked">> \in new_outcomes
    /\ new_pc = "built"
    /\ size = MaxSize

====
